---- MODULE Spec2Model ----
(***************************************************************************)
(* Model of the regd-testing utilities:                                    *)
(*   src/src/slice_ext.rs  generate_index, SliceExt::{choose, choose_mut,  *)
(*                         shuffle}                                        *)
(*   src/src/rand.rs       generate_range, generate_badfile                *)
(*   src/src/io.rs         try_remove_file                                 *)
(* One call of one operation is followed from its entry ("call") to its    *)
(* return ("done") or panic ("panicked").  The random source, the file     *)
(* system and a concurrent external process are the environment.           *)
(***************************************************************************)
EXTENDS Integers, Sequences, FiniteSets

\* ---------------------------------------------------------------- bounds
MaxLen == 4          \* longest slice given to choose / choose_mut / shuffle
NumVals == 2         \* element values of the slices that may hold duplicates
U32Bits == 2         \* scaled-down width of u32
MaxRange == 3        \* largest range endpoint given to generate_range
MaxNameLen == 2      \* longest file name requested from generate_badfile
NumSyms == 2         \* scaled-down size of the Alphanumeric alphabet
MaxIters == 3        \* candidates followed in one call of generate_badfile
MaxCreates == 1      \* entries the external process creates during one call

\* ------------------------------------------------------ program constants
RangeEnd == 4        \* for attempt in 1..=4
LastAttemptLate == RangeEnd + 1
LastAttempt == 4     \* if attempt < 4 { continue }

UsizeBits == 2 * U32Bits         \* usize is twice as wide as u32 (64 / 32)
Pow2(n) == 2 ^ n
U32Max == Pow2(U32Bits) - 1      \* u32::MAX
UsizeMax == Pow2(UsizeBits) - 1  \* usize::MAX

Panic == -1          \* marks a panic among the outcomes of a call

IOErrors == {"PermissionDenied"}            \* io::Error other than NotFound
RemoveErrors == {"NotFound", "PermissionDenied"}

Ops == {"shuffle", "choose", "choose_mut", "try_remove_file",
        "generate_badfile", "generate_index", "generate_range"}

\* ------------------------------------------------------------ rand.rs
\* Range<T>::is_empty: !(start < end)
RangeIsEmpty(lo, hi) == ~(lo < hi)

GenerateRangeCoerced(lo, hi) ==
    IF lo < hi THEN lo .. (hi - 1) ELSE {lo}

\* generate_range(lo..hi): the possible outcomes, Panic when the assert fails
GenerateRange(lo, hi) ==
    IF RangeIsEmpty(lo, hi) THEN {Panic} ELSE lo .. (hi - 1)

\* ------------------------------------------------------- slice_ext.rs
\* `sup as u32`: keeps the low U32Bits bits
AsU32(x) == x % Pow2(U32Bits)

FitsU32OffByOne(sup) == sup <= U32Max + 1

\* sup <= (u32::MAX as usize)
FitsU32(sup) == sup <= U32Max

\* generate_index(sup): the possible outcomes
GenerateIndex(sup) ==
    IF FitsU32(sup)
    THEN GenerateRange(0, AsU32(sup))
    ELSE GenerateRange(0, sup)

SwapOverwrite(s, a, b) == [s EXCEPT ![a + 1] = s[b + 1]]

\* self.swap(a, b), 0-based indices on a 1-based sequence
Swap(s, a, b) == [s EXCEPT ![a + 1] = s[b + 1], ![b + 1] = s[a + 1]]

ShuffleSupWholeSlice(i, len) == len

\* the argument of generate_index in shuffle: i + 1
ShuffleSup(i, len) == i + 1

IsEmptyNever(s) == FALSE

\* self.is_empty()
IsEmpty(s) == Len(s) = 0

\* the argument of generate_index in choose / choose_mut: self.len()
ChooseSup(s) == Len(s)

\* -------------------------------------------------------------- names
Alphabet == 1 .. NumSyms
NamesOfLen(n) == [1 .. n -> Alphabet]

\* the position of a name among the names of its length
RECURSIVE NameRank(_, _)
NameRank(name, k) ==
    IF k = 0 THEN 0 ELSE NameRank(name, k - 1) * NumSyms + (name[k] - 1)

\* the directories holding k entries of length n; the code tells names apart
\* only by comparing them, so which k names they are does not matter
Directory(n, k) == {name \in NamesOfLen(n) : NameRank(name, n) < k}
Directories(n) == {Directory(n, k) : k \in 0 .. Cardinality(NamesOfLen(n))}

MetadataBlind(name, ns) == {"NotFound"}

\* fs::metadata(&filename): "Ok" for an entry, NotFound for none, and an
\* I/O failure in either case
Metadata(name, ns) ==
    (IF name \in ns THEN {"Ok"} ELSE {"NotFound"}) \cup IOErrors

\* Result::is_err
IsErr(res) == res # "Ok"

\* ------------------------------------------------------------- inputs
DupSlices == UNION {[1 .. n -> 1 .. NumVals] : n \in 0 .. MaxLen}
IotaSlices == {[k \in 1 .. n |-> k] : n \in 0 .. MaxLen}
Slices == DupSlices \cup IotaSlices

NoRet == [kind |-> "none", n |-> 0, v |-> 0, e |-> "", name |-> << >>]

VARIABLES
    op,          \* the operation called
    pc,          \* position in the call
    slice,       \* self of choose / choose_mut / shuffle
    slice0,      \* the slice at the call
    hi,          \* end of the remaining range of (1..self.len()).rev()
    draws,       \* results of generate_index so far in shuffle
    indexCalls,  \* arguments generate_index was called with
    attempt,     \* next value of the iterator 1..=4
    outcomes,    \* results of fs::remove_file so far
    length,      \* argument of generate_badfile
    namespace,   \* names present in the current directory
    filename,    \* the candidate
    checkRes,    \* result of fs::metadata for the candidate
    presentAtCheck,  \* the candidate was in the namespace when fs::metadata ran
    namespace0,  \* the namespace at the call
    checks,      \* calls of fs::metadata
    generated,   \* candidates generated
    sup,         \* argument of generate_index
    lo,          \* range.start of generate_range
    hiR,         \* range.end of generate_range
    rngDraws,    \* values drawn from the random source
    ret          \* the return value

vars == << op, pc, slice, slice0, hi, draws, indexCalls, attempt, outcomes, length,
           namespace, filename, checkRes, presentAtCheck, namespace0, checks,
           generated, sup, lo, hiR, rngDraws, ret >>

sliceVars == << slice, slice0, hi, draws, indexCalls >>
removeVars == << attempt, outcomes >>
badfileVars == << length, namespace, filename, checkRes, presentAtCheck,
                  namespace0, checks, generated >>

\* an entry was created during the call
mutated == namespace # namespace0
numVars == << sup, lo, hiR >>

Init ==
    /\ op \in Ops
    /\ pc = "call"
    /\ slice \in (IF op \in {"shuffle", "choose", "choose_mut"}
                  THEN Slices ELSE {<< >>})
    /\ slice0 = slice
    /\ hi = Len(slice)
    /\ draws = << >>
    /\ indexCalls = << >>
    /\ attempt = 1
    /\ outcomes = << >>
    /\ length \in (IF op = "generate_badfile" THEN 0 .. MaxNameLen ELSE {0})
    /\ namespace \in (IF op = "generate_badfile"
                      THEN Directories(length) ELSE {{}})
    /\ namespace0 = namespace
    /\ filename = << >>
    /\ checkRes = "none"
    /\ presentAtCheck = FALSE
    /\ checks = 0
    /\ generated = 0
    /\ sup \in (IF op = "generate_index" THEN 0 .. UsizeMax ELSE {0})
    /\ lo \in (IF op = "generate_range" THEN 0 .. MaxRange ELSE {0})
    /\ hiR \in (IF op = "generate_range" THEN 0 .. MaxRange ELSE {0})
    /\ rngDraws = 0
    /\ ret = NoRet

\* ------------------------------------------------------------ shuffle
\* for i in (1..self.len()).rev() { self.swap(i, generate_index(i + 1)); }
ShuffleNext ==
    /\ op = "shuffle"
    /\ pc = "call"
    /\ 1 < hi
    /\ LET i == hi - 1 IN
       /\ indexCalls' = Append(indexCalls, ShuffleSup(i, Len(slice)))
       /\ \E j \in GenerateIndex(ShuffleSup(i, Len(slice))) :
             IF j = Panic
             THEN /\ pc' = "panicked"
                  /\ UNCHANGED << slice, hi, draws, rngDraws >>
             ELSE IF j >= Len(slice)     \* swap panics out of bounds
             THEN /\ pc' = "panicked"
                  /\ rngDraws' = rngDraws + 1
                  /\ UNCHANGED << slice, hi, draws >>
             ELSE /\ slice' = Swap(slice, i, j)
                  /\ hi' = i
                  /\ draws' = Append(draws, j)
                  /\ rngDraws' = rngDraws + 1
                  /\ pc' = pc
    /\ UNCHANGED << op, slice0, removeVars, badfileVars, numVars, ret >>

ShuffleReturn ==
    /\ op = "shuffle"
    /\ pc = "call"
    /\ ~(1 < hi)
    /\ pc' = "done"
    /\ ret' = [NoRet EXCEPT !.kind = "unit"]
    /\ UNCHANGED << op, sliceVars, removeVars, badfileVars, numVars,
                    rngDraws >>

\* ------------------------------------------------- choose / choose_mut
\* if self.is_empty() { None } else { Some(&self[generate_index(self.len())]) }
ChooseBody ==
    /\ pc = "call"
    /\ IF IsEmpty(slice)
       THEN /\ pc' = "done"
            /\ ret' = [NoRet EXCEPT !.kind = "None"]
            /\ UNCHANGED << indexCalls, rngDraws >>
       ELSE /\ indexCalls' = Append(indexCalls, ChooseSup(slice))
            /\ \E r \in GenerateIndex(ChooseSup(slice)) :
                  IF r = Panic
                  THEN /\ pc' = "panicked"
                       /\ UNCHANGED << ret, rngDraws >>
                  ELSE IF r >= Len(slice)     \* indexing panics out of bounds
                  THEN /\ pc' = "panicked"
                       /\ rngDraws' = rngDraws + 1
                       /\ UNCHANGED ret
                  ELSE /\ pc' = "done"
                       /\ ret' = [NoRet EXCEPT !.kind = "Some", !.n = r,
                                               !.v = slice[r + 1]]
                       /\ rngDraws' = rngDraws + 1
    /\ UNCHANGED << op, slice, slice0, hi, draws, removeVars, badfileVars,
                    numVars >>

Choose ==
    /\ op = "choose"
    /\ ChooseBody

ChooseMut ==
    /\ op = "choose_mut"
    /\ ChooseBody

\* ---------------------------------------------------- try_remove_file
\* one pass of the loop body, or the fall-through Ok(()) after the loop
RemoveAttempt ==
    /\ op = "try_remove_file"
    /\ pc = "call"
    /\ IF attempt > RangeEnd
       THEN /\ pc' = "done"
            /\ ret' = [NoRet EXCEPT !.kind = "Ok"]
            /\ UNCHANGED << attempt, outcomes >>
       ELSE \E res \in {"Ok"} \cup RemoveErrors :
               /\ outcomes' = Append(outcomes, res)
               /\ IF res = "Ok"
                  THEN /\ pc' = "done"
                       /\ ret' = [NoRet EXCEPT !.kind = "Ok"]
                       /\ UNCHANGED attempt
                  ELSE IF attempt < LastAttempt
                  THEN /\ attempt' = attempt + 1
                       /\ UNCHANGED << pc, ret >>
                  ELSE /\ pc' = "done"
                       /\ ret' = [NoRet EXCEPT !.kind = "Err", !.e = res]
                       /\ UNCHANGED attempt
    /\ UNCHANGED << op, sliceVars, badfileVars, numVars, rngDraws >>

\* --------------------------------------------------- generate_badfile
\* assert!(length > 0, "cannot sample empty file name");
BadfileAssert ==
    /\ op = "generate_badfile"
    /\ pc = "call"
    /\ pc' = (IF length > 0 THEN "generate" ELSE "panicked")
    /\ UNCHANGED << op, sliceVars, removeVars, badfileVars, numVars,
                    rngDraws, ret >>

\* rng.sample_iter(&Alphanumeric).take(length).map(char::from).collect()
BadfileGenerate ==
    /\ op = "generate_badfile"
    /\ pc = "generate"
    /\ generated < MaxIters
    /\ filename' \in NamesOfLen(length)
    /\ generated' = generated + 1
    /\ rngDraws' = rngDraws + length
    /\ checkRes' = "none"
    /\ pc' = "metadata"
    /\ UNCHANGED << op, sliceVars, removeVars, length, namespace,
                    presentAtCheck, namespace0, checks, numVars, ret >>

\* fs::metadata(&filename)
BadfileMetadata ==
    /\ op = "generate_badfile"
    /\ pc = "metadata"
    /\ checkRes' \in Metadata(filename, namespace)
    /\ presentAtCheck' = (filename \in namespace)
    /\ checks' = checks + 1
    /\ pc' = "branch"
    /\ UNCHANGED << op, sliceVars, removeVars, length, namespace, filename,
                    namespace0, generated, numVars, rngDraws, ret >>

\* if ....is_err() { return filename; } else the loop repeats
BadfileBranch ==
    /\ op = "generate_badfile"
    /\ pc = "branch"
    /\ IF IsErr(checkRes)
       THEN /\ pc' = "done"
            /\ ret' = [NoRet EXCEPT !.kind = "String", !.name = filename]
       ELSE /\ pc' = "generate"
            /\ UNCHANGED ret
    /\ UNCHANGED << op, sliceVars, removeVars, badfileVars, numVars,
                    rngDraws >>

\* another process creates an entry in the current directory
ExternalCreate ==
    /\ op = "generate_badfile"
    /\ pc \in {"generate", "metadata", "branch"}
    /\ Cardinality(namespace \ namespace0) < MaxCreates
    /\ \E name \in NamesOfLen(length) \ namespace :
          namespace' = namespace \cup {name}
    /\ UNCHANGED << op, pc, sliceVars, removeVars, length, filename,
                    checkRes, presentAtCheck, namespace0, checks, generated,
                    numVars, rngDraws, ret >>

\* ------------------------------------- generate_index, generate_range
NumReturn(outs, path) ==
    /\ pc = "call"
    /\ \E r \in outs :
          IF r = Panic
          THEN /\ pc' = "panicked"
               /\ ret' = [NoRet EXCEPT !.e = path]
               /\ UNCHANGED rngDraws
          ELSE /\ pc' = "done"
               /\ ret' = [NoRet EXCEPT !.kind = "value", !.n = r,
                                       !.e = path]
               /\ rngDraws' = rngDraws + 1
    /\ UNCHANGED << op, slice, slice0, hi, draws, removeVars, badfileVars,
                    numVars >>

\* a call of generate_index(sup); ret.e records the width path taken
GenerateIndexCall ==
    /\ op = "generate_index"
    /\ indexCalls' = Append(indexCalls, sup)
    /\ NumReturn(GenerateIndex(sup), IF FitsU32(sup) THEN "u32" ELSE "usize")

\* a call of generate_range(lo..hiR)
GenerateRangeCall ==
    /\ op = "generate_range"
    /\ UNCHANGED indexCalls
    /\ NumReturn(GenerateRange(lo, hiR), "")

Next ==
    \/ ShuffleNext
    \/ ShuffleReturn
    \/ Choose
    \/ ChooseMut
    \/ RemoveAttempt
    \/ BadfileAssert
    \/ BadfileGenerate
    \/ BadfileMetadata
    \/ BadfileBranch
    \/ ExternalCreate
    \/ GenerateIndexCall
    \/ GenerateRangeCall

Spec == Init /\ [][Next]_vars

\* ======================================================== properties
Range(s) == {s[k] : k \in DOMAIN s}
Count(s, v) == Cardinality({k \in DOMAIN s : s[k] = v})
SameMultiset(s, t) ==
    /\ Len(s) = Len(t)
    /\ \A v \in Range(s) \cup Range(t) : Count(s, v) = Count(t, v)
Distinct(s) == \A a, b \in DOMAIN s : s[a] = s[b] => a = b
RECURSIVE Factorial(_)
Factorial(n) == IF n <= 1 THEN 1 ELSE n * Factorial(n - 1)
Perms(s) == {t \in [DOMAIN s -> Range(s)] : SameMultiset(s, t)}

\* shuffle as a function of the slice and of the results of generate_index:
\* h is the end of the remaining range of (1..len).rev()
RECURSIVE ShuffleWith(_, _, _)
ShuffleWith(s, h, d) ==
    IF ~(1 < h) THEN s
    ELSE ShuffleWith(Swap(s, h - 1, Head(d)), h - 1, Tail(d))

\* the sequences of results generate_index can give one call of shuffle on a
\* slice of length n: the k-th call is made for i = n - k
DrawSeqs(n) ==
    {d \in [1 .. (n - 1) -> 0 .. n] :
        \A k \in 1 .. (n - 1) :
            d[k] \in GenerateIndex(ShuffleSup(n - k, n))}

\* C1: shuffle never fails, every swap of its loop leaves the slice with the
\* same length and the same multiset of elements as at the call (so no
\* element is duplicated or lost), and the loop ends after len - 1 swaps.
C1_ShufflePreservesMultiset ==
    op = "shuffle" =>
        /\ pc # "panicked"
        /\ SameMultiset(slice, slice0)
        /\ Distinct(slice0) => Distinct(slice)
        /\ Len(draws) = Len(slice0) - hi
        /\ Len(draws) <= Len(slice0)
        /\ pc = "done" => hi <= 1

C1_Witness ==
    /\ op = "shuffle"
    /\ pc = "done"
    /\ Len(slice0) >= 3
    /\ Len(draws) = Len(slice0) - 1
    /\ \A k \in DOMAIN slice : slice[k] # slice0[k]

\* C2: for a slice of N distinct elements the partner of position i is drawn
\* from [0, i] (generate_index(i + 1)) for i = N-1 down to 1, and the map from
\* the possible draw sequences to the resulting orderings is one-to-one and
\* onto the N! permutations of the slice.
C2_ShuffleBijection ==
    (op = "shuffle" /\ Distinct(slice0)) =>
        LET n == Len(slice0) IN
        /\ \A k \in DOMAIN draws :
              /\ draws[k] \in 0 .. (n - k)
              /\ indexCalls[k] = (n - k) + 1
        /\ (pc = "call" /\ draws = << >>) =>
              LET D == DrawSeqs(n)
                  R == {ShuffleWith(slice0, n, d) : d \in D}
              IN /\ Cardinality(D) = Factorial(n)
                 /\ Cardinality(R) = Factorial(n)
                 /\ R = Perms(slice0)
                 /\ \A d1, d2 \in D :
                       ShuffleWith(slice0, n, d1) = ShuffleWith(slice0, n, d2)
                           => d1 = d2
        /\ pc = "done" =>
              /\ draws \in DrawSeqs(n)
              /\ slice = ShuffleWith(slice0, n, draws)

C2_Witness ==
    /\ op = "shuffle"
    /\ pc = "done"
    /\ Distinct(slice0)
    /\ Len(slice0) >= 4
    /\ \A k \in DOMAIN slice : slice[k] = slice0[Len(slice0) + 1 - k]

\* C3: choose and choose_mut return None exactly for the empty slice; for a
\* slice of length N >= 1 they return Some element at an index of [0, N),
\* a member of the slice, never call generate_index(0), never fail, and every
\* index of [0, N) is a possible outcome.
C3_ChooseContract ==
    op \in {"choose", "choose_mut"} =>
        /\ pc # "panicked"
        /\ slice = slice0
        /\ \A k \in DOMAIN indexCalls : indexCalls[k] >= 1
        /\ pc = "done" =>
              /\ ret.kind \in {"None", "Some"}
              /\ ret.kind = "None" <=> Len(slice) = 0
              /\ ret.kind = "Some" =>
                    /\ ret.n \in 0 .. (Len(slice) - 1)
                    /\ ret.v = slice[ret.n + 1]
                    /\ ret.v \in Range(slice)
                    /\ indexCalls = << Len(slice) >>
        /\ (pc = "call" /\ Len(slice) >= 1) =>
              GenerateIndex(ChooseSup(slice)) = 0 .. (Len(slice) - 1)

C3_Witness ==
    /\ op = "choose_mut"
    /\ pc = "done"
    /\ Len(slice) >= 3
    /\ ret.kind = "Some"
    /\ ret.n = Len(slice) - 1

\* C4: try_remove_file makes at most 4 attempts, none after a success;
\* it returns Ok exactly when its last attempt succeeded, and Err with the
\* error of the 4th attempt when all 4 failed.
C4_RemoveRetry ==
    op = "try_remove_file" =>
        /\ Len(outcomes) <= 4
        /\ \A k \in 1 .. (Len(outcomes) - 1) : outcomes[k] # "Ok"
        /\ pc = "call" => \A k \in DOMAIN outcomes : outcomes[k] # "Ok"
        /\ pc # "panicked"
        /\ pc = "done" =>
              /\ Len(outcomes) >= 1
              /\ ret.kind \in {"Ok", "Err"}
              /\ ret.kind = "Ok" <=> outcomes[Len(outcomes)] = "Ok"
              /\ ret.kind = "Err" =>
                    /\ Len(outcomes) = 4
                    /\ ret.e = outcomes[4]

C4_Witness ==
    /\ op = "try_remove_file"
    /\ pc = "done"
    /\ ret.kind = "Err"
    /\ Len(outcomes) = 4
    /\ outcomes[1] # outcomes[4]
    /\ outcomes[3] # outcomes[4]
    /\ ret.e = outcomes[4]

\* C5: with a namespace that is not mutated during the call, the name
\* generate_badfile returns is the candidate of the last check, has `length`
\* characters, was not reported present by its check and is absent from the
\* namespace at the return.
C5_ReturnedNameAbsent ==
    (op = "generate_badfile" /\ pc = "done" /\ ~mutated) =>
        /\ ret.name = filename
        /\ Len(ret.name) = length
        /\ checkRes # "Ok"
        /\ ret.name \notin namespace

\* C6: an I/O error of the existence check is propagated to the caller as an
\* error result; no name is returned for it.
C6_CheckErrorPropagated ==
    (op = "generate_badfile" /\ pc = "done" /\ checkRes \in IOErrors) =>
        /\ ret.kind = "Err"
        /\ ret.e = checkRes

\* C7: generate_badfile(0), generate_range on an empty range and
\* generate_index(0) fail before any candidate is generated, any namespace
\* check is made or any value is drawn, and return nothing.
C7_InvalidArgumentsFailFast ==
    /\ (op = "generate_badfile" /\ length = 0) =>
          /\ pc \in {"call", "panicked"}
          /\ generated = 0
          /\ checks = 0
          /\ rngDraws = 0
          /\ ret.kind = "none"
    /\ (op = "generate_range" /\ ~(lo < hiR)) =>
          /\ pc \in {"call", "panicked"}
          /\ rngDraws = 0
          /\ ret.kind = "none"
    /\ (op = "generate_index" /\ sup = 0) =>
          /\ pc \in {"call", "panicked"}
          /\ rngDraws = 0
          /\ ret.kind = "none"

C7_Witness ==
    /\ op = "generate_index"
    /\ sup = 0
    /\ pc = "panicked"
    /\ indexCalls = << 0 >>

\* C8: with a static namespace in which every name of the requested length
\* exists, generate_badfile never returns.
C8_NeverReturnsWhenFull ==
    (/\ op = "generate_badfile"
     /\ length >= 1
     /\ ~mutated
     /\ namespace = NamesOfLen(length)) => pc # "done"

\* C9: a check that reported the candidate absent was right when it ran, so
\* a returned name that exists at the return, with such a check, was created
\* by the external process between the check and the return.
C9_ExistsOnlyByRace ==
    (op = "generate_badfile" /\ pc \in {"branch", "done"}
        /\ checkRes = "NotFound") =>
        /\ ~presentAtCheck
        /\ filename \notin namespace0
        /\ filename \in namespace => mutated

C9_Witness ==
    /\ op = "generate_badfile"
    /\ pc = "done"
    /\ checkRes = "NotFound"
    /\ ret.kind = "String"
    /\ ret.name = filename
    /\ ret.name \in namespace
    /\ ~presentAtCheck

\* C10: for every sup >= 1 generate_index(sup) never fails and its possible
\* results are exactly [0, sup) on both width paths; the 32-bit path is taken
\* exactly when sup <= u32::MAX and the cast on it keeps sup unchanged.
C10_IndexBothWidths ==
    (op = "generate_index" /\ sup >= 1) =>
        /\ pc # "panicked"
        /\ pc = "call" => GenerateIndex(sup) = 0 .. (sup - 1)
        /\ pc = "done" =>
              /\ ret.n \in 0 .. (sup - 1)
              /\ ret.e = "u32" <=> sup <= (2 ^ U32Bits) - 1
              /\ ret.e = "usize" <=> sup >= 2 ^ U32Bits
              /\ ret.e = "u32" => AsU32(sup) = sup

C10_Witness ==
    /\ op = "generate_index"
    /\ pc = "done"
    /\ sup = U32Max + 1
    /\ ret.e = "usize"
    /\ ret.n = sup - 1

====
